---- MODULE Spec2Model ----
(***************************************************************************)
(* A model of update-tags.py: the import of HSL (JORE) stop data into an   *)
(* OSM document.  Strings are TLA+ strings; an OSM element is a record     *)
(* with its XML tag name (kind), id, position, action attribute and the    *)
(* list of its <tag k v> children; a JORE stop is the Stop dataclass.      *)
(* Positions are the planar (ETRS-TM35FIN) coordinates in metres that      *)
(* COORD_TRANSFORMER yields: the projection itself is pyproj's and is not  *)
(* modelled.  Nodes always carry a position, as OSM nodes do.              *)
(***************************************************************************)
EXTENDS Integers, Sequences, FiniteSets, TLC

VARIABLES
    features,   \* data["features"] of the GeoJSON stop file
    stops,      \* the list read_stop_data_geojson returned
    doc,        \* etree.getroot(): the list of top-level elements
    orig,       \* the document as et.parse loaded it for this run
    i,          \* position of the for-loop over the elements (1-based)
    pc,         \* where main() is
    STATS,      \* the global counters
    all_osm_refs,
    osm_ref_missing_jore_match,
    matched_stops_with_conflicting_shelter_info,
    matched_but_not_within_distance_limit,
    files,      \* the CSV side reports written so far: name -> rows
    output,     \* the output document: <<>> until written, then <<doc>>
    run,        \* 1 for the first invocation, 2 for one on its own output
    last        \* what the loop body did with the element it last handled

vars == <<features, stops, doc, orig, i, pc, STATS, all_osm_refs,
          osm_ref_missing_jore_match,
          matched_stops_with_conflicting_shelter_info,
          matched_but_not_within_distance_limit, files, output, run, last>>

-----------------------------------------------------------------------------
(* Bounds of the model.                                                    *)

\* longest OSM ref drawn over Chars (registry keys are one longer)
MaxRefLen == 2
\* most features in the stop file
MaxStops == 2
\* most elements of a document in the whole-run specification
MaxElems == 4
\* most elements of a document in the tag specification
MaxTagElems == 1

-----------------------------------------------------------------------------
(* Python values and string methods.                                       *)

\* Python's None, as dict.get and Element.get return it
None == "<None>"

\* the truth value of a str-or-None
Truthy(v) == v # None /\ v # ""

\* x or y
Or(x, y) == IF Truthy(x) THEN x ELSE y

\* s[:n]
Prefix(s, n) == SubSeq(s, 1, IF Len(s) < n THEN Len(s) ELSE n)

\* s[1:]
Rest(s) == IF Len(s) = 0 THEN "" ELSE SubSeq(s, 2, Len(s))

\* s.startswith(p)
startswith(s, p) == Len(s) >= Len(p) /\ SubSeq(s, 1, Len(p)) = p

\* s.replace(old, new) for a one-character old: every occurrence is replaced
RECURSIVE replace(_, _, _)
replace(s, old, new) ==
    IF Len(s) = 0 THEN ""
    ELSE (IF Head(s) = old THEN new ELSE Head(s)) \o replace(Tail(s), old, new)

\* the characters the model's strings are made of, in code-point order
CharOrder == <<"1", "H", "X", "e", "n", "o", "s", "y">>

Ord(c) == CHOOSE k \in 1..Len(CharOrder) : CharOrder[k] = c

\* a < b for str
RECURSIVE StrLess(_, _)
StrLess(a, b) ==
    IF Len(b) = 0 THEN FALSE
    ELSE IF Len(a) = 0 THEN TRUE
    ELSE IF Head(a) # Head(b) THEN Ord(Head(a)) < Ord(Head(b))
    ELSE StrLess(Tail(a), Tail(b))

\* sorted(rows, key=..., reverse=True), given the key's < as a function
\* less[a, b] over the rows: a stable sort, so rows of equal key keep their
\* order
InsertDesc(r, x, less) ==
    LET later == {j \in 1..Len(r) : less[r[j], x]}
        p == IF later = {} THEN Len(r) + 1
             ELSE CHOOSE j \in later : \A k \in later : j <= k
    IN SubSeq(r, 1, p - 1) \o <<x>> \o SubSeq(r, p, Len(r))

sorted_reverse(rows, less) ==
    LET F[k \in 0..Len(rows)] ==
            IF k = 0 THEN <<>> ELSE InsertDesc(F[k - 1], rows[k], less)
    IN F[Len(rows)]

\* the rows of a list
RowsOf(rows) == {rows[n] : n \in 1..Len(rows)}

-----------------------------------------------------------------------------
(* Program constants.                                                      *)

OSM_URL == "https://www.openstreetmap.org"

\* the distance limit of "if distance_difference < 100"
MaxDistance == 100

STATS0 ==
    [matched |-> 0, not_within_max_distance |-> 0, prefixed |-> 0,
     sheltered_yes |-> 0, sheltered_no |-> 0, shelter_nodata |-> 0,
     named |-> 0, named_fi |-> 0, named_sv |-> 0]

-----------------------------------------------------------------------------
(* The Stop dataclass and the GeoJSON reader.                              *)

\* Stop(...) with __post_init__
Stop(id, stop_id, name, name_sv, lat, lon, shelter_param, valid_route_param, valid_timetable_param) ==
    [id |-> id, stop_id |-> stop_id, name |-> name, name_sv |-> name_sv,
     lat |-> lat, lon |-> lon,
     shelter |-> IF shelter_param \in {"04", "08"} THEN "no"
                 ELSE IF shelter_param = "99" THEN "unknown"
                 ELSE "yes",
     municipality |-> IF Prefix(stop_id, 1) = "H" \/ Prefix(stop_id, 2) = "XH"
                      THEN "Helsinki" ELSE None,
     valid_route_and_timetable |->
         ~(valid_route_param = 0 /\ valid_timetable_param = 0)]

\* the properties the loop body reads from a feature
RequiredProperties ==
    {"SOLMUTUNNU", "LYHYTTUNNU", "NIMI1", "NAMN1", "PYSAKKITYY",
     "REI_VOIM", "AIK_VOIM"}

\* the loop body raises (KeyError, ValueError) on such a feature
Raises(feature) ==
    \/ ~(RequiredProperties \subseteq DOMAIN feature.properties)
    \/ Len(feature.coordinates) # 2

\* the Stop the loop body builds from a feature that does not raise
NewStop(feature) ==
    LET jore_stop == feature.properties
        lat == feature.coordinates[1]
        lon == feature.coordinates[2]
    IN Stop(jore_stop.SOLMUTUNNU, jore_stop.LYHYTTUNNU, jore_stop.NIMI1,
            jore_stop.NAMN1, lon, lat, jore_stop.PYSAKKITYY,
            jore_stop.REI_VOIM, jore_stop.AIK_VOIM)

\* the for-loop inside the try: the first exception leaves the loop, and
\* the stops appended so far are returned
RECURSIVE ReadLoop(_, _)
ReadLoop(fs, acc) ==
    IF fs = <<>> THEN acc
    ELSE IF Raises(Head(fs)) THEN acc
    ELSE ReadLoop(Tail(fs), Append(acc, NewStop(Head(fs))))

read_stop_data_geojson(fs) == ReadLoop(fs, <<>>)

\* {x.stop_id: x for x in stops}: a later stop replaces an earlier one
all_jore_ref_of(ss) ==
    [k \in {ss[n].stop_id : n \in 1..Len(ss)} |->
        ss[CHOOSE n \in 1..Len(ss) :
              /\ ss[n].stop_id = k
              /\ \A m \in 1..Len(ss) : ss[m].stop_id = k => m <= n]]

\* dict.get(k), with the found stop wrapped: <<>> stands for None
Get(d, k) == IF k \in DOMAIN d THEN <<d[k]>> ELSE <<>>

\* get(osm_ref) or get("H" + osm_ref) or get("XH" + osm_ref[1:])
Lookup(d, osm_ref) ==
    IF Get(d, osm_ref) # <<>> THEN Get(d, osm_ref)
    ELSE IF Get(d, "H" \o osm_ref) # <<>> THEN Get(d, "H" \o osm_ref)
    ELSE Get(d, "XH" \o Rest(osm_ref))

-----------------------------------------------------------------------------
(* The XML helpers.                                                        *)

\* the keys of the element's tags
TagKeys(elem) == {elem.tags[n].k : n \in 1..Len(elem.tags)}

\* get_osm_tags: a dict, so the last of several tags of one key is kept
get_osm_tags(elem) ==
    [key \in TagKeys(elem) |->
        elem.tags[CHOOSE n \in 1..Len(elem.tags) :
                     /\ elem.tags[n].k = key
                     /\ \A m \in 1..Len(elem.tags) :
                           elem.tags[m].k = key => m <= n].v]

\* osm_tags.get(key)
TagGet(osm_tags, key) == IF key \in DOMAIN osm_tags THEN osm_tags[key] ELSE None

\* update_tag: mark the element modified, set every tag of that key
update_tag(elem, key, value) ==
    [elem EXCEPT
        !.action = "modify",
        !.tags = [n \in 1..Len(elem.tags) |->
                     IF elem.tags[n].k = key
                     THEN [k |-> key, v |-> value]
                     ELSE elem.tags[n]]]

\* create_tag: mark the element modified, append a new tag
create_tag(elem, key, value) ==
    [elem EXCEPT
        !.action = "modify",
        !.tags = Append(elem.tags, [k |-> key, v |-> value])]

\* add_stop_name without its per-key checks: every name tag is created
add_stop_name_unchecked(elem, jore_stop, st) ==
    [elem |-> create_tag(create_tag(create_tag(elem, "name", jore_stop.name),
                                    "name:fi", jore_stop.name),
                         "name:sv", jore_stop.name_sv),
     STATS |-> [st EXCEPT !.named = @ + 1, !.named_fi = @ + 1,
                          !.named_sv = @ + 1]]

\* add_stop_name: the element and the counters after it; st is STATS
add_stop_name(elem, jore_stop, st) ==
    LET tags == get_osm_tags(elem)
        e1 == IF "name" \notin DOMAIN tags
              THEN create_tag(elem, "name", jore_stop.name) ELSE elem
        s1 == IF "name" \notin DOMAIN tags
              THEN [st EXCEPT !.named = @ + 1] ELSE st
        e2 == IF "name:fi" \notin DOMAIN tags
              THEN create_tag(e1, "name:fi", jore_stop.name) ELSE e1
        s2 == IF "name:fi" \notin DOMAIN tags
              THEN [s1 EXCEPT !.named_fi = @ + 1] ELSE s1
        e3 == IF "name:sv" \notin DOMAIN tags
              THEN create_tag(e2, "name:sv", jore_stop.name_sv) ELSE e2
        s3 == IF "name:sv" \notin DOMAIN tags
              THEN [s2 EXCEPT !.named_sv = @ + 1] ELSE s2
    IN [elem |-> e3, STATS |-> s3]

\* elem.get("lat"), elem.get("lon"): None on an element without a position
ElemLat(elem) == IF elem.pos = <<>> THEN None ELSE elem.pos[1]
ElemLon(elem) == IF elem.pos = <<>> THEN None ELSE elem.pos[2]

\* f"{OSM_URL}/{elem.tag}/{osm_id}"
OsmLocator(elem) == OSM_URL \o "/" \o elem.tag \o "/" \o elem.id

\* int(x ** 0.5) for a natural number x
ISqrt(x) == CHOOSE d \in 0..x : d * d <= x /\ x < (d + 1) * (d + 1)

\* get_planar_distance_between_points, on projected coordinates
get_planar_distance_between_points(jore_coords, osm_coords) ==
    LET dx == jore_coords[1] - osm_coords[1]
        dy == jore_coords[2] - osm_coords[2]
    IN ISqrt(dx * dx + dy * dy)

-----------------------------------------------------------------------------
(* The body of main()'s loop over the elements, block by block.            *)

\* the condition under which a found, valid stop counts as matched:
\* "and" binds tighter than "or"
MatchCondition(osm_ref, jore_stop) ==
    \/ osm_ref = jore_stop.stop_id
    \/ /\ jore_stop.municipality = "Helsinki"
       /\ osm_ref = Rest(jore_stop.stop_id)
    \/ replace(osm_ref, "X", "XH") = jore_stop.stop_id

\* highway or railway or public_transport
StopType(osm_tags) ==
    Or(TagGet(osm_tags, "highway"),
       Or(TagGet(osm_tags, "railway"), TagGet(osm_tags, "public_transport")))

\* new_ref_value of the Helsinki block: False (here "") when left unset
NewRefValue(osm_ref) ==
    IF startswith(osm_ref, "X") /\ ~startswith(osm_ref, "XH")
    THEN replace(osm_ref, "X", "XH")
    ELSE IF ~startswith(osm_ref, "H") /\ ~startswith(osm_ref, "X")
    THEN "H" \o osm_ref
    ELSE ""

\* the ref prefixing of stops in Helsinki
PrefixStep(elem, osm_ref, jore_stop, st) ==
    IF jore_stop.municipality = "Helsinki" /\ NewRefValue(osm_ref) # ""
    THEN [elem |-> update_tag(elem, "ref", NewRefValue(osm_ref)),
          STATS |-> [st EXCEPT !.prefixed = @ + 1]]
    ELSE [elem |-> elem, STATS |-> st]

\* the row of shelter_conflicts.csv
ConflictRow(elem, osm_tags, jore_stop) ==
    [JORE_ID |-> jore_stop.id, REF |-> jore_stop.stop_id,
     JORE_SHELTER |-> jore_stop.shelter,
     OSM_SHELTER |-> TagGet(osm_tags, "shelter"),
     OSM_ID |-> OsmLocator(elem)]

\* the shelter block: a new shelter tag, or a conflict row, or neither
ShelterStep(elem, osm_tags, stoptype, jore_stop, st, conflicts) ==
    IF /\ "shelter" \notin DOMAIN osm_tags
       /\ elem.tag # "relation"
       /\ stoptype # "stop_position"
    THEN IF jore_stop.shelter = "yes"
         THEN [elem |-> create_tag(elem, "shelter", "yes"),
               STATS |-> [st EXCEPT !.sheltered_yes = @ + 1],
               conflicts |-> conflicts]
         ELSE IF jore_stop.shelter = "no"
         THEN [elem |-> create_tag(elem, "shelter", "no"),
               STATS |-> [st EXCEPT !.sheltered_no = @ + 1],
               conflicts |-> conflicts]
         ELSE IF jore_stop.shelter = "unknown"
         THEN [elem |-> elem,
               STATS |-> [st EXCEPT !.shelter_nodata = @ + 1],
               conflicts |-> conflicts]
         ELSE [elem |-> elem, STATS |-> st, conflicts |-> conflicts]
    ELSE IF /\ "shelter" \in DOMAIN osm_tags
            /\ jore_stop.shelter # "unknown"
            /\ jore_stop.shelter # TagGet(osm_tags, "shelter")
    THEN [elem |-> elem, STATS |-> st,
          conflicts |-> Append(conflicts, ConflictRow(elem, osm_tags, jore_stop))]
    ELSE [elem |-> elem, STATS |-> st, conflicts |-> conflicts]

\* the name block
NameStep(elem, osm_tags, jore_stop, st) ==
    IF \E key \in {"name", "name:fi", "name:sv"} : key \notin DOMAIN osm_tags
    THEN add_stop_name(elem, jore_stop, st)
    ELSE [elem |-> elem, STATS |-> st]

\* the row of matched_stops_exceeding_max_distance_limit.csv
DistanceRow(elem, jore_stop, distance_difference) ==
    [JORE_ID |-> jore_stop.id, REF |-> jore_stop.stop_id,
     JORE_LAT |-> jore_stop.lat, JORE_LON |-> jore_stop.lon,
     OSM_LAT |-> ElemLat(elem), OSM_LON |-> ElemLon(elem),
     DISTANCE |-> distance_difference, OSM_ID |-> OsmLocator(elem)]

\* the row of osm_refs_missing_jore_match.csv
MissingRow(elem, osm_ref) == [REF |-> osm_ref, OSM_ID |-> OsmLocator(elem)]

\* distance_difference: computed for a node, 0 for a way or a relation
DistanceDifference(elem, jore_stop) ==
    IF elem.tag = "node"
    THEN get_planar_distance_between_points(
             <<jore_stop.lat, jore_stop.lon>>, <<ElemLat(elem), ElemLon(elem)>>)
    ELSE 0

\* the distance test with <= for <
WithinLimitInclusive(distance_difference) == distance_difference <= MaxDistance

\* if distance_difference < 100
WithinLimit(distance_difference) == distance_difference < MaxDistance

\* what the run accumulates over the loop
Acc(st, refs, missing, conflicts, distant) ==
    [STATS |-> st, all_osm_refs |-> refs, missing |-> missing,
     conflicts |-> conflicts, distant |-> distant]

\* the matched branch: counted, then gated by the distance
MatchedBranch(elem, osm_tags, osm_ref, jore_stop, acc) ==
    LET st0 == [acc.STATS EXCEPT !.matched = @ + 1]
        stoptype == StopType(osm_tags)
        distance_difference == DistanceDifference(elem, jore_stop)
        a == PrefixStep(elem, osm_ref, jore_stop, st0)
        b == ShelterStep(a.elem, osm_tags, stoptype, jore_stop,
                         a.STATS, acc.conflicts)
        c == NameStep(b.elem, osm_tags, jore_stop, b.STATS)
    IN IF WithinLimit(distance_difference)
       THEN [elem |-> c.elem,
             acc |-> Acc(c.STATS, acc.all_osm_refs, acc.missing,
                         b.conflicts, acc.distant),
             did |-> [outcome |-> "reconciled", stop |-> <<jore_stop>>,
                      distance |-> distance_difference]]
       ELSE [elem |-> elem,
             acc |-> Acc([st0 EXCEPT !.not_within_max_distance = @ + 1],
                         acc.all_osm_refs, acc.missing, acc.conflicts,
                         Append(acc.distant,
                                DistanceRow(elem, jore_stop,
                                            distance_difference))),
             did |-> [outcome |-> "out_of_range", stop |-> <<jore_stop>>,
                      distance |-> distance_difference]]

\* one iteration of "for elem in etree.getroot()" against the index d
LoopBody(d, elem, acc) ==
    LET osm_tags == get_osm_tags(elem)
        osm_ref == TagGet(osm_tags, "ref")
        acc1 == [acc EXCEPT !.all_osm_refs = Append(@, osm_ref)]
        found == Lookup(d, osm_ref)
    IN IF ~Truthy(osm_ref)
       THEN [elem |-> elem, acc |-> acc,
             did |-> [outcome |-> "no_ref", stop |-> <<>>, distance |-> 0]]
       ELSE IF found # <<>> /\ found[1].valid_route_and_timetable
       THEN IF MatchCondition(osm_ref, found[1])
            THEN MatchedBranch(elem, osm_tags, osm_ref, found[1], acc1)
            ELSE [elem |-> elem, acc |-> acc1,
                  did |-> [outcome |-> "unhandled", stop |-> found,
                           distance |-> 0]]
       ELSE [elem |-> elem,
             acc |-> [acc1 EXCEPT !.missing =
                         Append(@, MissingRow(elem, osm_ref))],
             did |-> [outcome |-> "no_match", stop |-> found, distance |-> 0]]

\* the whole loop, from element n on
RECURSIVE PassFrom(_, _, _, _)
PassFrom(d, document, n, acc) ==
    IF n > Len(document) THEN [doc |-> document, acc |-> acc]
    ELSE LET r == LoopBody(d, document[n], acc)
         IN PassFrom(d, [document EXCEPT ![n] = r.elem], n + 1, r.acc)

\* the loop over a freshly loaded document, against the index d
pass_over(d, document) ==
    PassFrom(d, document, 1, Acc(STATS0, <<>>, <<>>, <<>>, <<>>))

-----------------------------------------------------------------------------
(* The side reports.                                                       *)

\* key=lambda i: (i["JORE-SHELTER"], i["REF"]), compared as tuples
ConflictKeyLess(rows) ==
    [a \in RowsOf(rows), b \in RowsOf(rows) |->
        \/ StrLess(a.JORE_SHELTER, b.JORE_SHELTER)
        \/ a.JORE_SHELTER = b.JORE_SHELTER /\ StrLess(a.REF, b.REF)]

\* key=lambda i: i["REF"]
RefKeyLess(rows) ==
    [a \in RowsOf(rows), b \in RowsOf(rows) |-> StrLess(a.REF, b.REF)]

\* key=lambda i: i["DISTANCE"]
DistanceKeyLess(rows) ==
    [a \in RowsOf(rows), b \in RowsOf(rows) |-> a.DISTANCE < b.DISTANCE]

\* len(x["REF"]) > 2: two-character refs are left out of the report
LongRef(x) == Len(x.REF) > 2

\* write_list_dict_to_csv: list_of_dicts[0] raises IndexError on an empty
\* list, before the file is opened
write_list_dict_to_csv(filename, list_of_dicts) ==
    IF list_of_dicts = <<>>
    THEN [raised |-> TRUE, files |-> files]
    ELSE [raised |-> FALSE, files |-> (filename :> list_of_dicts) @@ files]

-----------------------------------------------------------------------------
(* The state of main().                                                    *)

\* all_jore_ref, built once the stops are read
all_jore_ref == all_jore_ref_of(stops)

NoLast == [outcome |-> "none", stop |-> <<>>, distance |-> 0, index |-> 0]

\* the state main() starts in, on a stop file and a loaded document
Start(fs, d) ==
    /\ features = fs
    /\ stops = <<>>
    /\ doc = d
    /\ orig = d
    /\ i = 1
    /\ pc = "load"
    /\ STATS = STATS0
    /\ all_osm_refs = <<>>
    /\ osm_ref_missing_jore_match = <<>>
    /\ matched_stops_with_conflicting_shelter_info = <<>>
    /\ matched_but_not_within_distance_limit = <<>>
    /\ files = <<>>
    /\ output = <<>>
    /\ run = 1
    /\ last = NoLast

\* stops = read_stop_data_geojson(args.input_stops)
ReadStops ==
    /\ pc = "load"
    /\ stops' = read_stop_data_geojson(features)
    /\ pc' = IF Len(doc) = 0 THEN "csv_conflicts" ELSE "pass"
    /\ UNCHANGED <<features, doc, orig, i, STATS, all_osm_refs,
                   osm_ref_missing_jore_match,
                   matched_stops_with_conflicting_shelter_info,
                   matched_but_not_within_distance_limit, files, output,
                   run, last>>

\* one iteration of the loop over the elements
ProcessElem ==
    /\ pc = "pass"
    /\ i <= Len(doc)
    /\ \E r \in {LoopBody(all_jore_ref, doc[i],
                          Acc(STATS, all_osm_refs, osm_ref_missing_jore_match,
                              matched_stops_with_conflicting_shelter_info,
                              matched_but_not_within_distance_limit))} :
          /\ doc' = [doc EXCEPT ![i] = r.elem]
          /\ STATS' = r.acc.STATS
          /\ all_osm_refs' = r.acc.all_osm_refs
          /\ osm_ref_missing_jore_match' = r.acc.missing
          /\ matched_stops_with_conflicting_shelter_info' = r.acc.conflicts
          /\ matched_but_not_within_distance_limit' = r.acc.distant
          /\ last' = [outcome |-> r.did.outcome, stop |-> r.did.stop,
                      distance |-> r.did.distance, index |-> i]
    /\ i' = i + 1
    /\ pc' = IF i = Len(doc) THEN "csv_conflicts" ELSE "pass"
    /\ UNCHANGED <<features, stops, orig, files, output, run>>

\* a report write: on to the next step, or out of main() with IndexError
WriteReport(at, filename, rows, next) ==
    /\ pc = at
    /\ LET w == write_list_dict_to_csv(filename, rows)
       IN /\ files' = w.files
          /\ pc' = IF w.raised THEN "raised" ELSE next
    /\ UNCHANGED <<features, stops, doc, orig, i, STATS, all_osm_refs,
                   osm_ref_missing_jore_match,
                   matched_stops_with_conflicting_shelter_info,
                   matched_but_not_within_distance_limit, output, run, last>>

WriteShelterConflicts ==
    WriteReport("csv_conflicts", "shelter_conflicts.csv",
                sorted_reverse(
                    matched_stops_with_conflicting_shelter_info,
                    ConflictKeyLess(matched_stops_with_conflicting_shelter_info)),
                "csv_missing")

WriteMissingMatches ==
    WriteReport("csv_missing", "osm_refs_missing_jore_match.csv",
                sorted_reverse(SelectSeq(osm_ref_missing_jore_match, LongRef),
                               RefKeyLess(osm_ref_missing_jore_match)),
                "csv_distance")

WriteDistanceExceeded ==
    WriteReport("csv_distance",
                "matched_stops_exceeding_max_distance_limit.csv",
                sorted_reverse(
                    matched_but_not_within_distance_limit,
                    DistanceKeyLess(matched_but_not_within_distance_limit)),
                "write")

\* etree.write(args.output) succeeds
WriteDocument ==
    /\ pc = "write"
    /\ output' = <<doc>>
    /\ pc' = "done"
    /\ UNCHANGED <<features, stops, doc, orig, i, STATS, all_osm_refs,
                   osm_ref_missing_jore_match,
                   matched_stops_with_conflicting_shelter_info,
                   matched_but_not_within_distance_limit, files, run, last>>

\* etree.write raises: the handler prints the error, then evaluates
\* args.ouput, an attribute the parsed arguments do not have, so
\* AttributeError leaves the handler and main()
WriteDocumentFails ==
    /\ pc = "write"
    /\ pc' = "raised"
    /\ UNCHANGED <<features, stops, doc, orig, i, STATS, all_osm_refs,
                   osm_ref_missing_jore_match,
                   matched_stops_with_conflicting_shelter_info,
                   matched_but_not_within_distance_limit, files, output,
                   run, last>>

\* the tool is run again, with the same stop file, on the document the
\* first run saved; the report files of the first run are still on disk
SecondRun ==
    /\ pc = "done"
    /\ run = 1
    /\ run' = 2
    /\ doc' = output[1]
    /\ orig' = output[1]
    /\ stops' = <<>>
    /\ i' = 1
    /\ pc' = "load"
    /\ STATS' = STATS0
    /\ all_osm_refs' = <<>>
    /\ osm_ref_missing_jore_match' = <<>>
    /\ matched_stops_with_conflicting_shelter_info' = <<>>
    /\ matched_but_not_within_distance_limit' = <<>>
    /\ last' = NoLast
    /\ UNCHANGED <<features, files, output>>

\* the stop file is read, then the elements are passed over
NextPass == ReadStops \/ ProcessElem

Next ==
    \/ ReadStops
    \/ ProcessElem
    \/ WriteShelterConflicts
    \/ WriteMissingMatches
    \/ WriteDistanceExceeded
    \/ WriteDocument
    \/ WriteDocumentFails
    \/ SecondRun

-----------------------------------------------------------------------------
(* The inputs: stop files and documents.                                   *)

\* a feature of the stop file; its coordinates are the stop's position
Feature(id, key, shelter_code, rei_voim, aik_voim, coordinates) ==
    [properties |-> [SOLMUTUNNU |-> id, LYHYTTUNNU |-> key,
                     NIMI1 |-> "Asema", NAMN1 |-> "Stationen",
                     PYSAKKITYY |-> shelter_code,
                     REI_VOIM |-> rei_voim, AIK_VOIM |-> aik_voim],
     coordinates |-> coordinates]

\* a feature without its NIMI1 property
FeatureWithoutName(id, key) ==
    [properties |-> [SOLMUTUNNU |-> id, LYHYTTUNNU |-> key,
                     NAMN1 |-> "Stationen", PYSAKKITYY |-> "01",
                     REI_VOIM |-> 1, AIK_VOIM |-> 1],
     coordinates |-> <<0, 0>>]

\* a feature whose coordinate list holds one number
FeatureWithoutPair(id, key) == Feature(id, key, "01", 1, 1, <<0>>)

\* an element: its XML tag name, id, position and tags
Elem(tag, id, pos, tags) ==
    [tag |-> tag, id |-> id, pos |-> pos, action |-> None, tags |-> tags]

Tag(k, v) == [k |-> k, v |-> v]

\* ids by position in the file
IdOf == <<"1", "2", "3", "4", "5", "6">>

\* the lists of lengths lo..hi over a set
ListsOver(S, lo, hi) == UNION {[1..len -> S] : len \in lo..hi}

MakeFeature(shape, n) ==
    IF shape.malformed = "no"
    THEN Feature("J" \o IdOf[n], shape.key, shape.code, shape.rei, shape.aik,
                 shape.at)
    ELSE IF shape.malformed = "property"
    THEN FeatureWithoutName("J" \o IdOf[n], shape.key)
    ELSE FeatureWithoutPair("J" \o IdOf[n], shape.key)

MakeElem(shape, n) == Elem(shape.tag, IdOf[n], shape.pos, shape.tags)

\* the stop file, and the document, of a list of shapes
FeatureList(shapes) == [n \in 1..Len(shapes) |-> MakeFeature(shapes[n], n)]
ElemList(shapes) == [n \in 1..Len(shapes) |-> MakeElem(shapes[n], n)]

FeatureShape(key, code, rei, aik, at, malformed) ==
    [key |-> key, code |-> code, rei |-> rei, aik |-> aik, at |-> at,
     malformed |-> malformed]

ElemShape(tag, pos, tags) == [tag |-> tag, pos |-> pos, tags |-> tags]

\* the characters refs and keys are drawn over
Chars == {"H", "X", "1"}

RECURSIVE StringsOfLen(_)
StringsOfLen(n) ==
    IF n = 0 THEN {""}
    ELSE {c \o t : c \in Chars, t \in StringsOfLen(n - 1)}

StringsUpTo(lo, hi) == UNION {StringsOfLen(n) : n \in lo..hi}

\* positions: the stops are at the origin
Near == <<0, 0>>
JustInside == <<60, 79>>
AtLimit == <<60, 80>>
Far == <<90, 120>>

(* The whole run: a few stops and elements, chosen so that every report   *)
(* can be non-empty and the document be saved.                            *)
RunFeatureShapes ==
    {FeatureShape("HX1", "99", 1, 1, Near, "no"),
     FeatureShape("XH1", "01", 1, 1, Near, "no"),
     FeatureShape("1", "04", 0, 0, Near, "no"),
     FeatureShape("H1", "01", 0, 1, Near, "property"),
     FeatureShape("H1", "01", 1, 0, Near, "pair")}

RunElemShapes ==
    {ElemShape("node", Near, <<Tag("ref", "X1")>>),
     ElemShape("node", Far, <<Tag("ref", "XH1")>>),
     ElemShape("way", <<>>, <<Tag("ref", "XH1"), Tag("shelter", "no")>>),
     ElemShape("node", Near, <<Tag("ref", "111")>>),
     ElemShape("node", Near, <<Tag("highway", "bus_stop")>>)}

Init ==
    \E fs \in ListsOver(RunFeatureShapes, 0, MaxStops),
       d \in ListsOver(RunElemShapes, 0, MaxElems) :
        Start(FeatureList(fs), ElemList(d))

Spec == Init /\ [][Next]_vars

(* Matching: every ref and every key over Chars, stops with and without   *)
(* a valid route (none has a valid timetable), one element at a time.     *)
MatchFeatureShapes ==
    {FeatureShape(key, "01", rei_voim, 0, Near, "no") :
        key \in StringsUpTo(1, MaxRefLen + 1), rei_voim \in {0, 1}}

MatchElemShapes ==
    {ElemShape("node", Near, <<Tag("ref", ref)>>) :
        ref \in StringsUpTo(0, MaxRefLen)}
    \cup {ElemShape("node", Near, <<>>)}

InitMatch ==
    \E fs \in ListsOver(MatchFeatureShapes, 1, MaxStops),
       d \in ListsOver(MatchElemShapes, 1, 1) :
        Start(FeatureList(fs), ElemList(d))

SpecMatch == InitMatch /\ [][NextPass]_vars

(* Tags: one stop, elements of every kind with and without the tags the   *)
(* pass fills in, at every distance.                                      *)
TagFeatureShapes ==
    {FeatureShape(key, code, 1, 1, Near, "no") :
        key \in {"1", "H1"}, code \in {"01", "04", "08", "99"}}

ShelterTags == {<<>>, <<Tag("shelter", "yes")>>, <<Tag("shelter", "no")>>}

NameTags ==
    {<<>>, <<Tag("name", "Old")>>,
     <<Tag("name", "Old"), Tag("name:fi", "Old"), Tag("name:sv", "Old")>>}

StopTypeTags == {<<>>, <<Tag("public_transport", "stop_position")>>}

TagElemShapes ==
    {ElemShape(kp[1], kp[2], <<Tag("ref", "1")>> \o sh \o nm \o ty) :
        kp \in {<<"node", Near>>, <<"node", JustInside>>,
                <<"node", AtLimit>>, <<"node", Far>>,
                <<"way", <<>> >>, <<"relation", <<>> >>},
        sh \in ShelterTags, nm \in NameTags, ty \in StopTypeTags}

InitTags ==
    \E fs \in ListsOver(TagFeatureShapes, 1, 1),
       d \in ListsOver(TagElemShapes, 1, MaxTagElems) :
        Start(FeatureList(fs), ElemList(d))

SpecTags == InitTags /\ [][NextPass]_vars

-----------------------------------------------------------------------------
(* What the properties below speak of.                                     *)

\* the loop is over
PassDone == pc \notin {"load", "pass"}

\* the element the loop body last handled: as loaded, and as it is now
LastBefore == orig[last.index]
LastAfter == doc[last.index]

\* the ref of an element, None without a ref tag
RefOf(elem) == TagGet(get_osm_tags(elem), "ref")

\* the loop body treated the element as matched to last.stop[1]
LastMatched == last.outcome \in {"reconciled", "out_of_range"}

\* the tags of one key, in document order
TagsOfKey(elem, key) == SelectSeq(elem.tags, LAMBDA t : t.k = key)

\* the three matching rules, as the specification words them
Rule1(r, R) == R.stop_id = r
Rule2(r, R) == R.municipality = "Helsinki" /\ R.stop_id = "H" \o r
Rule3(r, R) ==
    /\ startswith(r, "X")
    /\ ~startswith(r, "XH")
    /\ R.stop_id = "XH" \o Rest(r)

MatchesByRule(r, R) == Rule1(r, R) \/ Rule2(r, R) \/ Rule3(r, R)

\* the keys of the registry index
IndexKeys == {stops[n].stop_id : n \in 1..Len(stops)}

-----------------------------------------------------------------------------
(* C1: an element with a non-empty ref r is treated as matched to record   *)
(* R only if R.key = r, or R is capital-classified and R.key = "H" + r,    *)
(* or r begins with "X" but not "XH" and R.key is r with that "X"          *)
(* replaced by "XH"; the index is tried with r, then "H" + r, then the     *)
(* "XH" form, and the first hit is the record used.                        *)
C1_MatchedOnlyByRule ==
    /\ LastMatched => MatchesByRule(RefOf(LastBefore), last.stop[1])
    /\ (last.index > 0 /\ Truthy(RefOf(LastBefore)) /\ last.stop # <<>>) =>
          LET r == RefOf(LastBefore)
              key == last.stop[1].stop_id
          IN /\ r \in IndexKeys => key = r
             /\ (r \notin IndexKeys /\ ("H" \o r) \in IndexKeys) =>
                   key = "H" \o r

(* C2: once the loop is over, every element with a non-empty ref that no   *)
(* importable record matches under the three rules has its ref in the      *)
(* missing-match list, and the elements with a non-empty ref are as many   *)
(* as the matched counter and the missing-match list together.             *)
C2_EveryRefAccounted ==
    PassDone =>
        /\ \A n \in 1..Len(orig) :
              (/\ Truthy(RefOf(orig[n]))
               /\ ~\E m \in 1..Len(stops) :
                      /\ stops[m].valid_route_and_timetable
                      /\ MatchesByRule(RefOf(orig[n]), stops[m]))
              => \E k \in 1..Len(osm_ref_missing_jore_match) :
                    /\ osm_ref_missing_jore_match[k].REF = RefOf(orig[n])
                    /\ osm_ref_missing_jore_match[k].OSM_ID = OsmLocator(orig[n])
        /\ Cardinality({n \in 1..Len(orig) : Truthy(RefOf(orig[n]))})
               = STATS.matched + Len(osm_ref_missing_jore_match)

(* C3: a run on the document an earlier run saved, with the same stop      *)
(* file, changes nothing: the document stays as loaded (no tag created,    *)
(* no ref rewritten, no element newly marked) and every mutation counter   *)
(* stays 0.                                                                *)
C3_SecondRunChangesNothing ==
    run = 2 =>
        /\ doc = orig
        /\ STATS.prefixed = 0
        /\ STATS.sheltered_yes = 0
        /\ STATS.sheltered_no = 0
        /\ STATS.named = 0
        /\ STATS.named_fi = 0
        /\ STATS.named_sv = 0

(* C4: a name, name:fi, name:sv or shelter tag that an element has when   *)
(* loaded keeps its value and is not duplicated, whatever record is        *)
(* matched; and when the shelter tag of a matched element within the       *)
(* distance limit disagrees with a record whose shelter is not unknown,    *)
(* a conflict row with the record's id and key, both shelter values and    *)
(* the element's locator is recorded.                                      *)
C4_FillGapsOnly ==
    /\ \A n \in 1..Len(doc) :
          \A key \in {"name", "name:fi", "name:sv", "shelter"} :
              TagsOfKey(orig[n], key) # <<>> =>
                  TagsOfKey(doc[n], key) = TagsOfKey(orig[n], key)
    /\ (last.outcome = "reconciled" /\ TagsOfKey(LastBefore, "shelter") # <<>>) =>
          LET had == TagsOfKey(LastBefore, "shelter")
              osm_value == had[Len(had)].v
              R == last.stop[1]
              rows == matched_stops_with_conflicting_shelter_info
          IN (R.shelter # "unknown" /\ R.shelter # osm_value) =>
                /\ rows # <<>>
                /\ rows[Len(rows)] =
                      [JORE_ID |-> R.id, REF |-> R.stop_id,
                       JORE_SHELTER |-> R.shelter, OSM_SHELTER |-> osm_value,
                       OSM_ID |-> OSM_URL \o "/" \o LastBefore.tag \o "/"
                                  \o LastBefore.id]

\* an element with a name and a disagreeing shelter tag was matched within
\* the limit, its missing name tags were filled in and the conflict recorded
C4_Witness ==
    /\ last.outcome = "reconciled"
    /\ TagsOfKey(LastBefore, "name") = <<Tag("name", "Old")>>
    /\ TagsOfKey(LastBefore, "name:fi") = <<>>
    /\ TagsOfKey(LastAfter, "name:fi") # <<>>
    /\ TagsOfKey(LastBefore, "shelter") = <<Tag("shelter", "no")>>
    /\ last.stop[1].shelter = "yes"
    /\ matched_stops_with_conflicting_shelter_info # <<>>

(* C5: a matched node whose distance to the record is 100 m or more is     *)
(* left as it is, counted as matched and once as out of range, with one    *)
(* out-of-range row carrying the distance; a way or a relation is never    *)
(* rejected, and a matched element under 100 m goes on to the mutation     *)
(* steps.                                                                  *)
C5_DistanceGate ==
    [][(pc = "pass" /\ i <= Len(doc)) =>
        LET e == doc[i]
            R == last'.stop[1]
            rows == matched_but_not_within_distance_limit
            rows2 == matched_but_not_within_distance_limit'
            dx == R.lat - e.pos[1]
            dy == R.lon - e.pos[2]
            far == e.tag = "node" /\ dx * dx + dy * dy >= MaxDistance * MaxDistance
        IN last'.outcome \in {"reconciled", "out_of_range"} =>
              /\ far =>
                    /\ last'.outcome = "out_of_range"
                    /\ doc'[i] = e
                    /\ STATS' = [STATS EXCEPT
                                    !.matched = @ + 1,
                                    !.not_within_max_distance = @ + 1]
                    /\ Len(rows2) = Len(rows) + 1
                    /\ SubSeq(rows2, 1, Len(rows)) = rows
                    /\ LET d == rows2[Len(rows2)].DISTANCE
                       IN /\ d * d <= dx * dx + dy * dy
                          /\ dx * dx + dy * dy < (d + 1) * (d + 1)
                          /\ rows2[Len(rows2)].JORE_ID = R.id
                    /\ matched_stops_with_conflicting_shelter_info'
                          = matched_stops_with_conflicting_shelter_info
              /\ ~far =>
                    /\ last'.outcome = "reconciled"
                    /\ STATS'.matched = STATS.matched + 1
                    /\ STATS'.not_within_max_distance
                          = STATS.not_within_max_distance
                    /\ rows2 = rows
                    /\ \A key \in {"name", "name:fi", "name:sv"} :
                          TagsOfKey(doc'[i], key) # <<>>
    ]_vars

\* a node exactly at the limit, lacking every tag the pass would add and
\* with a ref the pass would rewrite, was matched and left alone
C5_Witness ==
    /\ last.outcome = "out_of_range"
    /\ last.distance = MaxDistance
    /\ LastBefore.tag = "node"
    /\ LastBefore.tags = <<Tag("ref", "1")>>
    /\ last.stop[1].stop_id = "H1"
    /\ LastAfter = LastBefore
    /\ STATS.not_within_max_distance = 1

(* C6: for a matched element within the limit whose record is capital-     *)
(* classified, a ref starting with "X" but not "XH" becomes the ref with   *)
(* its leading "X" replaced by "XH", a ref starting with neither "H" nor   *)
(* "X" becomes "H" + ref, any other ref stays; no other element's ref      *)
(* changes, and the prefixed counter counts the elements whose ref         *)
(* changed.                                                                *)
C6_ReferencePrefixing ==
    /\ last.index > 0 =>
          LET r == RefOf(LastBefore)
              expected ==
                  IF /\ last.outcome = "reconciled"
                     /\ last.stop[1].municipality = "Helsinki"
                  THEN IF startswith(r, "X") /\ ~startswith(r, "XH")
                       THEN "XH" \o Rest(r)
                       ELSE IF ~startswith(r, "H") /\ ~startswith(r, "X")
                       THEN "H" \o r
                       ELSE r
                  ELSE r
          IN RefOf(LastAfter) = expected
    /\ STATS.prefixed
          = Cardinality({n \in 1..Len(doc) : RefOf(doc[n]) # RefOf(orig[n])})

\* a feature with every required property and a coordinate pair
WellFormed(feature) ==
    /\ RequiredProperties \subseteq DOMAIN feature.properties
    /\ Len(feature.coordinates) = 2

(* C7: after the stop file is read, the stops are those of the well-formed *)
(* features, each one present, in file order: a malformed feature is       *)
(* skipped and the features before and after it are kept.                  *)
C7_MalformedFeatureSkipped ==
    pc # "load" =>
        LET good == SelectSeq(features, WellFormed)
        IN /\ Len(stops) = Len(good)
           /\ \A n \in 1..Len(good) :
                 /\ stops[n].id = good[n].properties.SOLMUTUNNU
                 /\ stops[n].stop_id = good[n].properties.LYHYTTUNNU

(* C8: once the document is loaded no exception leaves main(): the pass    *)
(* ends, the three reports are written whatever the lists hold, the        *)
(* document write is reached, and a failing write is reported and the run  *)
(* ends normally.                                                          *)
C8_NoExceptionPropagates == pc # "raised"

\* the registry without the stops that are not importable
ImportableOnly(ss) == SelectSeq(ss, LAMBDA x : x.valid_route_and_timetable)

(* C9: stops without valid route and timetable take no part in matching:   *)
(* the pass leaves the document, the counters and the three lists as the   *)
(* pass over the same document would with those stops removed from the     *)
(* registry.                                                               *)
C9_NonImportableExcluded ==
    PassDone =>
        LET want == pass_over(all_jore_ref_of(ImportableOnly(stops)), orig)
        IN /\ doc = want.doc
           /\ STATS = want.acc.STATS
           /\ osm_ref_missing_jore_match = want.acc.missing
           /\ matched_stops_with_conflicting_shelter_info = want.acc.conflicts
           /\ matched_but_not_within_distance_limit = want.acc.distant

(* C10: the ref of an element matched to a record within the limit is,     *)
(* after the pass, that record's key.                                      *)
C10_RefEqualsKey ==
    last.outcome = "reconciled" => RefOf(LastAfter) = last.stop[1].stop_id

====
